---- MODULE Spec2Model ----
(***************************************************************************)
(* The KDTree wrapper of lpqtree (src/lpqtree/lpqtree.py) over the native  *)
(* nanoflann_ext index.  The wrapper is translated from the Python source; *)
(* the native index (src/lpqnanoflann.cpp, nanoflann/include/lpq*.cpp) is  *)
(* not among the source files and is modelled from the design document:    *)
(* tree build (4.1), metrics (4.2), single-query search (4.3), threaded    *)
(* batch search (4.4), result assembly (4.5), two-level refinement (4.6).  *)
(*                                                                         *)
(* Numbers.  Coordinates are rationals v/den with one denominator per      *)
(* array (np.mean of integer-valued rows divides by the block length).     *)
(* A distance is held exactly as (int + SUM sqrt(rads[i])) / den, with     *)
(* rads the non-square radicands in non-decreasing order.  A radius is a   *)
(* rational num/den.  Floating-point rounding is not modelled.             *)
(***************************************************************************)
EXTENDS Integers, Sequences, FiniteSets, TLC

VARIABLES
    self,   \* the KDTree object: its attributes, self.index the native index
    last,   \* the call that last returned: op, arguments, exception, value
    mt,     \* the native threaded batch search in flight (4.4), or idle
    env     \* the caller's data array, where a specification fixes one

vars == <<self, last, mt, env>>

----------------------------------------------------------------------------
(* Bounds of the model *)

MaxCoord == 1
MaxRows == 3
MaxRadius == 2
MaxJobs == 2
MaxMpts == 3

----------------------------------------------------------------------------
(* Python values *)

None == [none |-> TRUE]

Some(v) == [val |-> v]

\* Python truthiness of an Optional[int]: None and 0 are falsy.
Truthy(x) == IF x = None THEN FALSE ELSE x.val # 0

SUPPORTED_TYPES == {"float32", "float64"}

SUPPORTED_DIM == {2, 3}

SUPPORTED_METRIC == {"l1", "l2", "l11", "l22", "l21"}

----------------------------------------------------------------------------
(* numpy arrays: dtype, shape, and the rows of the array flattened to      *)
(* (shape[0], -1); an entry v stands for the number v / den.               *)

RECURSIVE ProdFrom(_, _)
ProdFrom(shape, i) ==
    IF i > Len(shape) THEN 1 ELSE shape[i] * ProdFrom(shape, i + 1)

\* The length of one row of X.reshape((X.shape[0], -1)).
RowWidth(shape) == ProdFrom(shape, 2)

ndim(X) == Len(X.shape)

\* X.reshape((X.shape[0], -1))
Reshape2D(X) == [X EXCEPT !.shape = <<X.shape[1], RowWidth(X.shape)>>]

RECURSIVE SumSeq(_)
SumSeq(s) == IF s = <<>> THEN 0 ELSE Head(s) + SumSeq(Tail(s))

\* np.mean(X.reshape((X.shape[0], nb_mpts, nb_averaged, -1)), axis=2):
\* block b of a row averages nb_averaged consecutive sub-rows of width w.
MeanBlocks(X, nb_mpts, nb_averaged) ==
    LET w == RowWidth(X.shape) \div (nb_mpts * nb_averaged)
        MeanRow(row) ==
            [k \in 1..(nb_mpts * w) |->
                LET b == (k - 1) \div w
                    c == (k - 1) % w
                IN  SumSeq([a \in 1..nb_averaged |->
                                row[(b * nb_averaged + (a - 1)) * w + c + 1]])]
    IN  [dtype |-> IF X.dtype = "float32" THEN "float32" ELSE "float64",
         shape |-> <<X.shape[1], nb_mpts, w>>,
         den   |-> X.den * nb_averaged,
         flat  |-> [n \in 1..Len(X.flat) |-> MeanRow(X.flat[n])]]

----------------------------------------------------------------------------
(* Exact arithmetic on distances *)

Abs(x) == IF x < 0 THEN -x ELSE x

Max2(a, b) == IF a >= b THEN a ELSE b

ISqrt(n) == CHOOSE r \in 0..n : r * r <= n /\ (r + 1) * (r + 1) > n

IsSquare(n) == ISqrt(n) * ISqrt(n) = n

RECURSIVE InsertSorted(_, _)
InsertSorted(x, s) ==
    IF s = <<>> THEN <<x>>
    ELSE IF x <= Head(s) THEN <<x>> \o s
    ELSE <<Head(s)>> \o InsertSorted(x, Tail(s))

RECURSIVE MergeSorted(_, _)
MergeSorted(s, t) ==
    IF s = <<>> THEN t ELSE MergeSorted(Tail(s), InsertSorted(Head(s), t))

\* sqrt(n): the inverse transform of a squared intermediate.
Root(n) ==
    IF IsSquare(n) THEN [int |-> ISqrt(n), rads |-> <<>>]
    ELSE [int |-> 0, rads |-> <<n>>]

AddD(a, b) == [int |-> a.int + b.int, rads |-> MergeSorted(a.rads, b.rads)]

\* (D.int + SUM sqrt(D.rads[i])) / scale <= num / den, for at most two
\* irrational terms: sqrt(a) + sqrt(b) <= c iff c >= 0, c^2 - a - b >= 0 and
\* 4ab <= (c^2 - a - b)^2.
LeqRadius(D, scale, num, den) ==
    LET c == num * scale - den * D.int
        t == [i \in 1..Len(D.rads) |-> den * den * D.rads[i]]
    IN  /\ c >= 0
        /\ CASE Len(t) = 0 -> TRUE
             [] Len(t) = 1 -> t[1] <= c * c
             [] Len(t) = 2 -> /\ c * c - t[1] - t[2] >= 0
                              /\ 4 * t[1] * t[2] <=
                                    (c * c - t[1] - t[2]) * (c * c - t[1] - t[2])

----------------------------------------------------------------------------
(* MetricStrategy (4.2): point-to-point distance and box lower bound *)

\* The sum of f over the coordinates of group g (width W) of vector v.
GroupSum(v, W, g, f(_)) == SumSeq([k \in 1..W |-> f(v[(g - 1) * W + k])])

Square(x) == x * x

RECURSIVE SumRoots(_, _, _)
SumRoots(v, W, g) ==
    IF g = 0 THEN [int |-> 0, rads |-> <<>>]
    ELSE AddD(SumRoots(v, W, g - 1), Root(GroupSum(v, W, g, Square)))

\* The norm of a difference vector v under the metric, groups of width W.
Norm(metric, W, v) ==
    LET G == Len(v) \div W
    IN  CASE metric \in {"l1", "l11"} ->
                [int  |-> SumSeq([g \in 1..G |-> GroupSum(v, W, g, Abs)]),
                 rads |-> <<>>]
          [] metric \in {"l2", "l22"} ->
                Root(SumSeq([g \in 1..G |-> GroupSum(v, W, g, Square)]))
          [] metric = "l21" -> SumRoots(v, W, G)

\* p - q for a tree row p (entries over dt) and a query row q (entries over
\* dq), both brought to the denominator dt * dq.
Diff(p, q, dt, dq) == [j \in 1..Len(p) |-> p[j] * dq - q[j] * dt]

Distance(metric, W, p, q, dt, dq) == Norm(metric, W, Diff(p, q, dt, dq))

\* Per-axis clipped distance from q to the box [lo, hi].
Clip(lo, hi, q, dt, dq) ==
    [j \in 1..Len(q) |->
        Max2(0, Max2(lo[j] * dq - q[j] * dt, q[j] * dt - hi[j] * dq))]

BoxDistance(metric, W, lo, hi, q, dt, dq) ==
    Norm(metric, W, Clip(lo, hi, q, dt, dq))

----------------------------------------------------------------------------
(* SpatialIndex (4.1): build *)

MinOf(S) == CHOOSE x \in S : \A y \in S : x <= y

MaxOf(S) == CHOOSE x \in S : \A y \in S : x >= y

Coords(data, idx, j) == {data[idx[i]][j] : i \in 1..Len(idx)}

BoxLo(data, idx) == [j \in 1..Len(data[idx[1]]) |-> MinOf(Coords(data, idx, j))]

BoxHi(data, idx) == [j \in 1..Len(data[idx[1]]) |-> MaxOf(Coords(data, idx, j))]

Spread(data, idx, j) == MaxOf(Coords(data, idx, j)) - MinOf(Coords(data, idx, j))

\* The dimension of largest spread over the range (the first one on a tie).
SplitDim(data, idx) ==
    LET dims == 1..Len(data[idx[1]])
        best == MaxOf({Spread(data, idx, j) : j \in dims})
    IN  MinOf({j \in dims : Spread(data, idx, j) = best})

\* Twice the midpoint of the spread along dimension j.
SplitValue2(data, idx, j) ==
    MinOf(Coords(data, idx, j)) + MaxOf(Coords(data, idx, j))

\* The range's points at or below the split value; a range of coincident
\* points is halved by position.
LeftOf(data, idx) ==
    LET j == SplitDim(data, idx)
    IN  IF Spread(data, idx, j) = 0 THEN SubSeq(idx, 1, Len(idx) \div 2)
        ELSE LET AtOrBelow(i) == 2 * data[i][j] <= SplitValue2(data, idx, j)
             IN  SelectSeq(idx, AtOrBelow)

RightOf(data, idx) ==
    LET j == SplitDim(data, idx)
    IN  IF Spread(data, idx, j) = 0 THEN SubSeq(idx, Len(idx) \div 2 + 1, Len(idx))
        ELSE LET Above(i) == 2 * data[i][j] > SplitValue2(data, idx, j)
             IN  SelectSeq(idx, Above)

RECURSIVE Build(_, _, _)
Build(data, idx, leafSize) ==
    IF Len(idx) <= leafSize
    THEN [leaf |-> TRUE, pts |-> idx,
          lo |-> BoxLo(data, idx), hi |-> BoxHi(data, idx)]
    ELSE [leaf |-> FALSE,
          dim |-> SplitDim(data, idx), val2 |-> SplitValue2(data, idx, SplitDim(data, idx)),
          lo |-> BoxLo(data, idx), hi |-> BoxHi(data, idx),
          left  |-> Build(data, LeftOf(data, idx), leafSize),
          right |-> Build(data, RightOf(data, idx), leafSize)]

----------------------------------------------------------------------------
(* QueryEngine (4.3): one query against the tree *)

\* The records of one leaf: every contained point within the radius.
RECURSIVE LeafScan(_, _, _, _, _, _, _)
LeafScan(ix, pts, q, dq, num, den, row) ==
    IF pts = <<>> THEN <<>>
    ELSE LET D == Distance(ix.metric, ix.last_dim, ix.data[Head(pts)], q, ix.den, dq)
             rest == LeafScan(ix, Tail(pts), q, dq, num, den, row)
         IN  IF LeqRadius(D, ix.den * dq, num, den)
             THEN <<[row |-> row, col |-> Head(pts) - 1,
                     dist |-> [int |-> D.int, rads |-> D.rads, den |-> ix.den * dq]]>> \o rest
             ELSE rest

\* A subtree is pruned when its box lower bound exceeds the radius.
Pruned(ix, node, q, dq, num, den) ==
    ~LeqRadius(BoxDistance(ix.metric, ix.last_dim, node.lo, node.hi, q, ix.den, dq),
               ix.den * dq, num, den)

RECURSIVE Traverse(_, _, _, _, _, _, _)
Traverse(ix, node, q, dq, num, den, row) ==
    IF node.leaf THEN LeafScan(ix, node.pts, q, dq, num, den, row)
    ELSE (IF Pruned(ix, node.left, q, dq, num, den) THEN <<>>
          ELSE Traverse(ix, node.left, q, dq, num, den, row))
         \o
         (IF Pruned(ix, node.right, q, dq, num, den) THEN <<>>
          ELSE Traverse(ix, node.right, q, dq, num, den, row))

\* radiusSearch(index, query, radius): the NeighborRecords of query row `row`
\* (0-based) of X.
RadiusSearch(ix, X, row, radius) ==
    Traverse(ix, ix.tree, X.flat[row + 1], X.den, radius.num, radius.den, row)

----------------------------------------------------------------------------
(* Exceptions.  exc is the Python class the caller sees; kind is the error  *)
(* kind of the design (section 7) the raise site stands for.               *)

NoError == [exc |-> "none", kind |-> "none"]

ValueError(kind) == [exc |-> "ValueError", kind |-> kind]

AssertionError == [exc |-> "AssertionError", kind |-> "assert"]

\* An attribute looked up on None.
AttributeError == [exc |-> "AttributeError", kind |-> "NoneType"]

\* tuple index out of range: X.shape[1] of a 1-d array.
IndexError == [exc |-> "IndexError", kind |-> "shape"]

NotFittedError == [exc |-> "NotFittedError", kind |-> "NotFitted"]

\* An error raised inside nanoflann_ext.
NativeError(kind) == [exc |-> "NativeError", kind |-> kind]

\* What a call hands back: the object after it, the exception, the value.
Ret(s, e, v) == [self |-> s, raised |-> e, value |-> v]

----------------------------------------------------------------------------
(* ResultAssembler (4.5) *)

EmptyResults == [rows |-> <<>>, cols |-> <<>>, dists |-> <<>>, ptr |-> <<0>>]

RECURSIVE Flatten(_)
Flatten(ss) == IF ss = <<>> THEN <<>> ELSE Head(ss) \o Flatten(Tail(ss))

\* rowPtr by counting the records of each row and prefix-summing; each record
\* goes to its row's running offset.  Without distances the dists stay empty.
Assemble(records, nq, withDists) ==
    LET OfRow(r) == LET InRow(x) == x.row = r IN SelectSeq(records, InRow)
        placed == Flatten([r \in 1..nq |-> OfRow(r - 1)])
        Before(k) == LET Earlier(x) == x.row < k IN Len(SelectSeq(records, Earlier))
    IN  [rows  |-> [i \in 1..Len(placed) |-> placed[i].row],
         cols  |-> [i \in 1..Len(placed) |-> placed[i].col],
         dists |-> IF withDists THEN [i \in 1..Len(placed) |-> placed[i].dist]
                   ELSE <<>>,
         ptr   |-> [k \in 1..(nq + 1) |-> Before(k - 1)]]

----------------------------------------------------------------------------
(* nanoflann_ext.KDTree32 / KDTree64 *)

\* KDTree32(n_neighbors, leaf_size, metric, radius): an index not yet built.
NewIndex(bits, n_neighbors, leaf_size, metric, radius) ==
    [bits |-> bits, n_neighbors |-> n_neighbors, leaf_size |-> leaf_size,
     metric |-> metric, radius |-> radius,
     fitted |-> FALSE, data |-> <<>>, den |-> 1, last_dim |-> 1, tree |-> None,
     searched |-> FALSE, res |-> EmptyResults]

NRet(ix, e) == [index |-> ix, raised |-> e]

\* index.fit(X, "", last_dim): build over the rows of the 2-d array X.
NativeFit(ix, X, last_dim) ==
    IF RowWidth(X.shape) % last_dim # 0
    THEN NRet(ix, NativeError("InvalidDimension"))
    ELSE NRet([ix EXCEPT !.fitted = TRUE, !.data = X.flat, !.den = X.den,
                         !.last_dim = last_dim,
                         !.tree = Build(X.flat, [i \in 1..Len(X.flat) |-> i],
                                        ix.leaf_size),
                         !.searched = FALSE, !.res = EmptyResults],
              NoError)

\* Query rows first..until (0-based, inclusive) searched one after another.
RECURSIVE SearchRows(_, _, _, _, _)
SearchRows(ix, X, first, until, radius) ==
    IF first > until THEN <<>>
    ELSE RadiusSearch(ix, X, first, radius)
         \o SearchRows(ix, X, first + 1, until, radius)

\* Chunk c (1-based) of nq rows split into nt contiguous chunks, the
\* remainder going to the first chunks: its first row and its size.
ChunkSize(nq, nt, c) == nq \div nt + (IF c <= nq % nt THEN 1 ELSE 0)

ChunkFirst(nq, nt, c) ==
    (c - 1) * (nq \div nt) + (IF c - 1 <= nq % nt THEN c - 1 ELSE nq % nt)

\* The per-worker buffers of a finished threaded search, in chunk order.
ChunkBuffers(ix, X, radius, nt) ==
    LET nq == Len(X.flat)
    IN  [c \in 1..nt |->
            SearchRows(ix, X, ChunkFirst(nq, nt, c),
                       ChunkFirst(nq, nt, c) + ChunkSize(nq, nt, c) - 1, radius)]

\* What makes a batch search fail before any traversal.
SearchError(ix, X) ==
    IF ~ix.fitted THEN NativeError("NotFitted")
    ELSE IF RowWidth(X.shape) # Len(ix.data[1]) THEN NativeError("InvalidDimension")
    ELSE NoError

\* radius_neighbors_idx_dists / radius_neighbors_idx (nt = 1) and their
\* _multithreaded forms (nt = n_jobs), run to completion.
NativeRadiusSearch(ix, X, radius, withDists, nt) ==
    IF SearchError(ix, X) # NoError THEN NRet(ix, SearchError(ix, X))
    ELSE NRet([ix EXCEPT !.searched = TRUE,
                         !.res = Assemble(Flatten(ChunkBuffers(ix, X, radius, nt)),
                                          Len(X.flat), withDists)],
              NoError)

\* TwoLevelRefiner step 4: re-score the coarse hits with the exact metric
\* over the full-resolution rows and drop the pairs beyond the radius.
RECURSIVE Refine(_, _, _, _, _)
Refine(ix, hits, Data_full, X_full, radius) ==
    IF hits = <<>> THEN <<>>
    ELSE LET h == Head(hits)
             D == Distance(ix.metric, ix.last_dim, Data_full.flat[h.col + 1],
                           X_full.flat[h.row + 1], Data_full.den, X_full.den)
             scale == Data_full.den * X_full.den
             rest == Refine(ix, Tail(hits), Data_full, X_full, radius)
         IN  IF LeqRadius(D, scale, radius.num, radius.den)
             THEN <<[row |-> h.row, col |-> h.col,
                     dist |-> [int |-> D.int, rads |-> D.rads, den |-> scale]]>>
                  \o rest
             ELSE rest

FullSearchError(ix, X_mpts, Data_full, X_full) ==
    IF ix.metric \notin {"l1", "l2", "l11", "l21"} THEN NativeError("UnsupportedMetric")
    ELSE IF ~ix.fitted THEN NativeError("NotFitted")
    ELSE IF \/ RowWidth(X_mpts.shape) # Len(ix.data[1])
            \/ RowWidth(Data_full.shape) # RowWidth(X_full.shape)
            \/ RowWidth(X_full.shape) % RowWidth(X_mpts.shape) # 0
            \/ RowWidth(X_full.shape) % ix.last_dim # 0
            \/ Len(Data_full.flat) # Len(ix.data)
            \/ Len(X_full.flat) # Len(X_mpts.flat)
         THEN NativeError("InvalidDimension")
    ELSE NoError

\* radius_neighbors_idx_dists_full(_multithreaded): coarse search of the
\* mean-point index, then refinement.
NativeRadiusSearchFull(ix, X_mpts, Data_full, X_full, mpts_radius, radius, nt) ==
    IF FullSearchError(ix, X_mpts, Data_full, X_full) # NoError
    THEN NRet(ix, FullSearchError(ix, X_mpts, Data_full, X_full))
    ELSE NRet([ix EXCEPT !.searched = TRUE,
                         !.res = Assemble(
                                    Refine(ix, Flatten(ChunkBuffers(ix, X_mpts, mpts_radius, nt)),
                                           Data_full, X_full, radius),
                                    Len(X_mpts.flat), TRUE)],
              NoError)

RECURSIVE NodeCount(_)
NodeCount(node) ==
    IF node.leaf THEN 1 ELSE 1 + NodeCount(node.left) + NodeCount(node.right)

\* index.save_index(path): the topology written, one record per node.
NativeSaveIndex(ix) ==
    IF ~ix.fitted THEN [raised |-> NativeError("NotFitted"), value |-> None]
    ELSE [raised |-> NoError, value |-> Some(NodeCount(ix.tree))]

----------------------------------------------------------------------------
(* scipy.sparse constructors, as far as shapes and index checks go *)

MaxIn(s) == MaxOf({s[i] : i \in 1..Len(s)})

\* csr_matrix((data, indices, indptr), shape=shape)
csr_matrix(data, indices, indptr, shape) ==
    LET M == IF shape = None THEN Len(indptr) - 1 ELSE shape.val[1]
        N == IF shape # None THEN shape.val[2]
             ELSE IF indices = <<>> THEN 0 ELSE MaxIn(indices) + 1
    IN  IF \/ Len(data) # Len(indices)
           \/ Len(indptr) # M + 1
           \/ \E i \in 1..Len(indices) : indices[i] >= N
        THEN [raised |-> ValueError("scipy"), value |-> None]
        ELSE [raised |-> NoError,
              value |-> [format |-> "csr", shape |-> <<M, N>>, data |-> data,
                         indices |-> indices, indptr |-> indptr]]

\* coo_matrix((data, (row, col)), shape=shape)
coo_matrix(data, row, col, shape) ==
    IF shape = None /\ (row = <<>> \/ col = <<>>)
    THEN [raised |-> ValueError("scipy"), value |-> None]
    ELSE LET M == IF shape = None THEN MaxIn(row) + 1 ELSE shape.val[1]
             N == IF shape = None THEN MaxIn(col) + 1 ELSE shape.val[2]
         IN  IF \/ Len(data) # Len(row)
                \/ Len(row) # Len(col)
                \/ \E i \in 1..Len(row) : row[i] >= M
                \/ \E i \in 1..Len(col) : col[i] >= N
             THEN [raised |-> ValueError("scipy"), value |-> None]
             ELSE [raised |-> NoError,
                   value |-> [format |-> "coo", shape |-> <<M, N>>, data |-> data,
                              row |-> row, col |-> col]]

----------------------------------------------------------------------------
(* The wrapper: src/lpqtree/lpqtree.py *)

\* str.lower() on the metric names a caller may pass.
Lower(m) ==
    CASE m = "L1" -> "l1" [] m = "L2" -> "l2" [] m = "L11" -> "l11"
      [] m = "L21" -> "l21" [] m = "L22" -> "l22" [] OTHER -> m

_check_arg(points) ==
    IF points.dtype \notin SUPPORTED_TYPES THEN ValueError("InvalidDimension")
    ELSE IF ndim(points) \notin SUPPORTED_DIM THEN ValueError("InvalidDimension")
    ELSE NoError

\* KDTree.__init__
init(n_neighbors, radius, leaf_size, metric) ==
    IF Lower(metric) \notin SUPPORTED_METRIC
    THEN Ret(None, ValueError("UnsupportedMetric"), None)
    ELSE Ret([n_neighbors |-> n_neighbors, radius |-> radius,
              leaf_size |-> leaf_size, metric |-> Lower(metric),
              index |-> None, _fit_X |-> None,
              _nb_vts_in_tree |-> None, _nb_vts_in_search |-> None],
             NoError, None)

\* sklearn's check_is_fitted(estimator, attributes, all_or_any=any): fitted
\* when any of the attributes exists on the estimator (hasattr).
check_is_fitted(s, attributes) == \E a \in attributes : a \in DOMAIN s

\* KDTree.fit(X), index_path not given.
fit(s, X) ==
    IF _check_arg(X) # NoError THEN Ret(s, _check_arg(X), None)
    ELSE
      LET s1 == [s EXCEPT !.index =
                    NewIndex(IF X.dtype = "float32" THEN 32 ELSE 64,
                             s.n_neighbors, s.leaf_size, s.metric, s.radius)]
      IN  IF ~(s.metric = "l2" \/ s.metric = "l1") /\ ndim(X) # 3
          THEN Ret(s1, ValueError("InvalidDimension"), None)
          ELSE
            LET last_dim == IF s.metric = "l2" \/ s.metric = "l1" THEN 1
                            ELSE X.shape[3]
                s2 == [s1 EXCEPT !._fit_X = Reshape2D(X),
                                 !._nb_vts_in_tree = Some(X.shape[1])]
                r == NativeFit(s2.index, s2._fit_X, last_dim)
            IN  Ret([s2 EXCEPT !.index = r.index], r.raised, None)

\* KDTree.get_data(copy)
get_data(s, copy) ==
    IF ~check_is_fitted(s, {"_fit_X"}) THEN Ret(s, NotFittedError, None)
    ELSE IF copy
         THEN (IF s._fit_X = None THEN Ret(s, AttributeError, None)
               ELSE Ret(s, NoError, s._fit_X))
         ELSE Ret(s, NoError, s._fit_X)

\* KDTree.save_index(path)
save_index(s) ==
    IF s.index = None THEN Ret(s, AttributeError, None)
    ELSE Ret(s, NativeSaveIndex(s.index).raised, NativeSaveIndex(s.index).value)

\* radius_neighbors_dispatch with the threaded branch always taking the entry
\* point that records no distances: a variant the thread-count property must
\* tell apart.
radius_neighbors_dispatch_no_dists(return_distance, n_jobs) ==
    IF n_jobs = 1
    THEN (IF return_distance
          THEN [fn |-> "radius_neighbors_idx_dists", withDists |-> TRUE, nt |-> 1]
          ELSE [fn |-> "radius_neighbors_idx", withDists |-> FALSE, nt |-> 1])
    ELSE [fn |-> "radius_neighbors_idx_multithreaded", withDists |-> FALSE, nt |-> n_jobs]

\* The native entry point radius_neighbors chooses (lines 116-125), with
\* whether it records distances and its thread count.
radius_neighbors_dispatch(return_distance, n_jobs) ==
    IF n_jobs = 1
    THEN (IF return_distance
          THEN [fn |-> "radius_neighbors_idx_dists", withDists |-> TRUE, nt |-> 1]
          ELSE [fn |-> "radius_neighbors_idx", withDists |-> FALSE, nt |-> 1])
    ELSE (IF return_distance
          THEN [fn |-> "radius_neighbors_idx_dists_multithreaded",
                withDists |-> TRUE, nt |-> n_jobs]
          ELSE [fn |-> "radius_neighbors_idx_multithreaded",
                withDists |-> FALSE, nt |-> n_jobs])

\* radius_neighbors_args with the radius argument ignored in favour of the
\* tree's own: a variant the exactness property must tell apart.
radius_neighbors_args_own_radius(s, X, radius) ==
    IF ~check_is_fitted(s, {"_fit_X"})
    THEN [raised |-> NotFittedError, X |-> X, radius |-> radius]
    ELSE IF _check_arg(X) # NoError
    THEN [raised |-> _check_arg(X), X |-> X, radius |-> radius]
    ELSE [raised |-> IF s.index = None THEN AttributeError ELSE NoError,
          X      |-> IF ndim(X) = 3 THEN Reshape2D(X) ELSE X,
          radius |-> s.radius]

\* radius_neighbors up to the native call (lines 107-114): the exception,
\* or the reshaped queries and the radius to search with.
radius_neighbors_args(s, X, radius) ==
    IF ~check_is_fitted(s, {"_fit_X"})
    THEN [raised |-> NotFittedError, X |-> X, radius |-> radius]
    ELSE IF _check_arg(X) # NoError
    THEN [raised |-> _check_arg(X), X |-> X, radius |-> radius]
    ELSE [raised |-> IF s.index = None THEN AttributeError ELSE NoError,
          X      |-> IF ndim(X) = 3 THEN Reshape2D(X) ELSE X,
          radius |-> IF radius = None THEN s.radius ELSE radius]

\* radius_neighbors after the native call (lines 127-135).
radius_neighbors_return(s, ix, X, return_distance, no_return) ==
    Ret([s EXCEPT !.index = ix, !._nb_vts_in_search = Some(X.shape[1])],
        NoError,
        IF no_return THEN None
        ELSE IF return_distance
             THEN [rows |-> ix.res.rows, cols |-> ix.res.cols, dists |-> ix.res.dists]
             ELSE [rows |-> ix.res.rows, cols |-> ix.res.cols])

\* KDTree.radius_neighbors(X, radius, return_distance, n_jobs, no_return)
radius_neighbors(s, X, radius, return_distance, n_jobs, no_return) ==
    LET a == radius_neighbors_args(s, X, radius)
    IN  IF a.raised # NoError THEN Ret(s, a.raised, None)
        ELSE
          LET d == radius_neighbors_dispatch(return_distance, n_jobs)
              r == NativeRadiusSearch(s.index, a.X, a.radius, d.withDists, d.nt)
          IN  IF r.raised # NoError THEN Ret(s, r.raised, None)
              ELSE radius_neighbors_return(s, r.index, a.X, return_distance, no_return)

\* KDTree.get_dists / get_rows / get_cols
get_dists(s) ==
    IF s.index = None THEN Ret(s, AttributeError, None)
    ELSE Ret(s, NoError, s.index.res.dists)

get_rows(s) ==
    IF s.index = None THEN Ret(s, AttributeError, None)
    ELSE Ret(s, NoError, s.index.res.rows)

get_cols(s) ==
    IF s.index = None THEN Ret(s, AttributeError, None)
    ELSE Ret(s, NoError, s.index.res.cols)

\* The shape both matrix getters pass on.
mtx_shape(s) ==
    IF Truthy(s._nb_vts_in_tree) /\ Truthy(s._nb_vts_in_search)
    THEN Some(<<s._nb_vts_in_tree.val, s._nb_vts_in_search.val>>)
    ELSE None

\* KDTree.get_csr_matrix
get_csr_matrix(s) ==
    IF get_dists(s).raised # NoError THEN get_dists(s)
    ELSE LET m == csr_matrix(get_dists(s).value, get_cols(s).value,
                             s.index.res.ptr, mtx_shape(s))
         IN  Ret(s, m.raised, m.value)

\* KDTree.get_coo_matrix
get_coo_matrix(s) ==
    IF get_dists(s).raised # NoError THEN get_dists(s)
    ELSE LET m == coo_matrix(get_dists(s).value, get_rows(s).value,
                             get_cols(s).value, mtx_shape(s))
         IN  Ret(s, m.raised, m.value)

\* KDTree.get_csc_matrix: a coo_matrix has no attribute to_csc.
get_csc_matrix(s) ==
    IF get_coo_matrix(s).raised # NoError THEN get_coo_matrix(s)
    ELSE Ret(s, [exc |-> "AttributeError", kind |-> "to_csc"], None)

\* KDTree.radius_neighbors_full(X_mpts, Data_full, X_full, radius, n_jobs)
radius_neighbors_full(s, X_mpts0, Data_full0, X_full0, radius, n_jobs) ==
    LET X_mpts == IF ndim(X_mpts0) = 3 THEN Reshape2D(X_mpts0) ELSE X_mpts0
        Data_full == IF ndim(Data_full0) = 3 THEN Reshape2D(Data_full0) ELSE Data_full0
        X_full == IF ndim(X_full0) = 3 THEN Reshape2D(X_full0) ELSE X_full0
    IN  IF ndim(X_mpts) < 2 \/ ndim(X_full) < 2 THEN Ret(s, IndexError, None)
        ELSE
          LET nb_mpts == X_mpts.shape[2]
              nb_dim == X_full.shape[2]
              mpts_radius == [num |-> radius.num * nb_mpts, den |-> radius.den * nb_dim]
          IN  IF ~(X_mpts.shape[2] <= X_full.shape[2]) THEN Ret(s, AssertionError, None)
              ELSE IF ndim(Data_full) < 2 THEN Ret(s, IndexError, None)
              ELSE IF ~(X_full.shape[2] = Data_full.shape[2]) THEN Ret(s, AssertionError, None)
              ELSE IF ~(X_mpts.shape[1] = X_full.shape[1]) THEN Ret(s, AssertionError, None)
              ELSE IF get_data(s, FALSE).raised # NoError THEN get_data(s, FALSE)
              ELSE IF get_data(s, FALSE).value = None THEN Ret(s, AttributeError, None)
              ELSE IF ~(get_data(s, FALSE).value.shape[1] = Data_full.shape[1])
                   THEN Ret(s, AssertionError, None)
              ELSE IF ~(nb_dim % nb_mpts = 0) THEN Ret(s, AssertionError, None)
              ELSE IF s.index = None THEN Ret(s, AttributeError, None)
              ELSE
                LET r == NativeRadiusSearchFull(s.index, X_mpts, Data_full, X_full,
                                                mpts_radius, radius,
                                                IF n_jobs = 1 THEN 1 ELSE n_jobs)
                IN  Ret([s EXCEPT !.index = r.index], r.raised, None)

\* The metric list with l22 let through: a variant the l22 property must tell
\* apart.
MptsMetrics_with_l22 == {"l1", "l2", "l11", "l21", "l22"}

\* The metrics fit_and_radius_search accepts together with nb_mpts.
MptsMetrics == {"l1", "l2", "l11", "l21"}

\* KDTree.fit_and_radius_search(tree_vts, search_vts, radius, n_jobs, nb_mpts)
fit_and_radius_search(s, tree_vts, search_vts, radius, n_jobs, nb_mpts) ==
    IF Tail(tree_vts.shape) # Tail(search_vts.shape) THEN Ret(s, AssertionError, None)
    ELSE IF Truthy(nb_mpts)
    THEN
      IF ~(s.metric \in MptsMetrics) THEN Ret(s, ValueError("UnsupportedMetric"), None)
      ELSE IF ndim(tree_vts) < 2 THEN Ret(s, IndexError, None)
      ELSE IF tree_vts.shape[2] % nb_mpts.val # 0
           THEN Ret(s, ValueError("InvalidDimension"), None)
      ELSE
        LET nb_averaged == tree_vts.shape[2] \div nb_mpts.val
            tree_mpts == MeanBlocks(tree_vts, nb_mpts.val, nb_averaged)
            search_mpts == MeanBlocks(search_vts, nb_mpts.val, nb_averaged)
            f == fit(s, tree_mpts)
        IN  IF f.raised # NoError THEN f
            ELSE radius_neighbors_full(f.self, search_mpts, tree_vts, search_vts,
                                       radius, n_jobs)
    ELSE
      LET f == fit(s, tree_vts)
      IN  IF f.raised # NoError THEN f
          ELSE radius_neighbors(f.self, search_vts, radius, TRUE, n_jobs, TRUE)

\* pickler(c): the arguments unpickler is called with.
pickler(c) ==
    [n_neighbors |-> c.n_neighbors, radius |-> c.radius,
     leaf_size |-> c.leaf_size, metric |-> c.metric,
     X |-> IF "_fit_X" \in DOMAIN c THEN c._fit_X ELSE None]

\* unpickler(n_neighbors, radius, leaf_size, metric, X): the tree it returns.
unpickler(n_neighbors, radius, leaf_size, metric, X) ==
    LET t == init(n_neighbors, radius, leaf_size, metric)
    IN  IF t.raised # NoError THEN [raised |-> t.raised, value |-> None]
        ELSE IF X # None
             THEN (IF fit(t.self, X).raised # NoError
                   THEN [raised |-> fit(t.self, X).raised, value |-> None]
                   ELSE [raised |-> NoError, value |-> fit(t.self, X).self])
             ELSE [raised |-> NoError, value |-> t.self]

----------------------------------------------------------------------------
(* Arguments the calls are made with *)

DefaultNNeighbors == 5

\* radius=1.0
DefaultRadius == [num |-> 1, den |-> 1]

\* Metric names handed to the constructor; "cosine" is rejected by it.
MetricArgs == SUPPORTED_METRIC \cup {"L2", "cosine"}

LeafSizes == {1}

Radii == {[num |-> r, den |-> 1] : r \in 0..MaxRadius}

Jobs == 1..MaxJobs

MptsArgs == {None} \cup {Some(m) : m \in 1..MaxMpts}

Arr(dtype, shape, rows) == [dtype |-> dtype, shape |-> shape, den |-> 1, flat |-> rows]

\* n rows of the given trailing shape, row r filled with (r - 1) mod (MaxCoord + 1).
Ramp(n, tail) ==
    Arr("float64", <<n>> \o tail,
        [r \in 1..n |-> [j \in 1..RowWidth(<<n>> \o tail) |-> (r - 1) % (MaxCoord + 1)]])

\* A 2-d array of MaxRows rows of two coordinates and a 3-d array of one row
\* of two groups of one coordinate.
GoodArrays == {Ramp(MaxRows, <<2>>), Ramp(1, <<2, 1>>)}

\* The same with rows of three coordinates.
WideArrays == {Ramp(MaxRows, <<3>>), Ramp(1, <<3, 1>>)}

\* An unsupported dtype, an unsupported rank, and a float32 array.
BadArrays ==
    {Arr("int64", <<1, 2>>, <<<<0, 0>>>>), Arr("float64", <<2>>, <<<<0>>, <<1>>>>)}

Float32Arrays == {Arr("float32", <<1, 2>>, <<<<0, 1>>>>)}

AnyArrays == GoodArrays \cup BadArrays \cup Float32Arrays

LifeRadii == {[num |-> 0, den |-> 1]}

LifeJobs == {1, MaxJobs}

----------------------------------------------------------------------------
(* The state machine: one KDTree object and the calls made on it *)

Idle == [phase |-> "idle"]

Returned(op, args, r) ==
    /\ self' = r.self
    /\ last' = [op |-> op, args |-> args, raised |-> r.raised, value |-> r.value]
    /\ mt' = Idle
    /\ env' = env

\* KDTree(leaf_size=leaf_size, metric=metric) constructed without error.
Constructed(metric, leaf_size) ==
    /\ init(DefaultNNeighbors, DefaultRadius, leaf_size, metric).raised = NoError
    /\ self = init(DefaultNNeighbors, DefaultRadius, leaf_size, metric).self
    /\ last = [op |-> "__init__", args |-> [metric |-> metric],
               raised |-> NoError, value |-> None]
    /\ mt = Idle

Init ==
    \E metric \in MetricArgs, leaf_size \in LeafSizes :
        /\ Constructed(metric, leaf_size)
        /\ env = None

Fit ==
    /\ mt = Idle
    /\ \E X \in AnyArrays : Returned("fit", [X |-> X], fit(self, X))

GetData ==
    /\ mt = Idle
    /\ \E copy \in BOOLEAN : Returned("get_data", [copy |-> copy], get_data(self, copy))

SaveIndex ==
    /\ mt = Idle
    /\ Returned("save_index", <<>>, save_index(self))

RadiusNeighbors ==
    /\ mt = Idle
    /\ \E X \in GoodArrays \cup BadArrays, radius \in LifeRadii \cup {None},
          return_distance \in BOOLEAN, n_jobs \in LifeJobs, no_return \in BOOLEAN :
          Returned("radius_neighbors",
                   [X |-> X, radius |-> radius, return_distance |-> return_distance,
                    no_return |-> no_return],
                   radius_neighbors(self, X, radius, return_distance, n_jobs, no_return))

GetDists ==
    /\ mt = Idle
    /\ Returned("get_dists", <<>>, get_dists(self))

GetRows ==
    /\ mt = Idle
    /\ Returned("get_rows", <<>>, get_rows(self))

GetCols ==
    /\ mt = Idle
    /\ Returned("get_cols", <<>>, get_cols(self))

GetCsrMatrix ==
    /\ mt = Idle
    /\ Returned("get_csr_matrix", <<>>, get_csr_matrix(self))

GetCooMatrix ==
    /\ mt = Idle
    /\ Returned("get_coo_matrix", <<>>, get_coo_matrix(self))

GetCscMatrix ==
    /\ mt = Idle
    /\ Returned("get_csc_matrix", <<>>, get_csc_matrix(self))

RadiusNeighborsFull ==
    /\ mt = Idle
    /\ \E X_mpts \in GoodArrays, Data_full \in GoodArrays \cup WideArrays,
          X_full \in GoodArrays \cup WideArrays, radius \in LifeRadii, n_jobs \in {1} :
          Returned("radius_neighbors_full",
                   [X_mpts |-> X_mpts, Data_full |-> Data_full, X_full |-> X_full,
                    radius |-> radius],
                   radius_neighbors_full(self, X_mpts, Data_full, X_full, radius, n_jobs))

FitAndRadiusSearch ==
    /\ mt = Idle
    /\ \E tree_vts \in GoodArrays, search_vts \in GoodArrays, radius \in LifeRadii,
          n_jobs \in {1}, nb_mpts \in MptsArgs :
          Returned("fit_and_radius_search",
                   [tree_vts |-> tree_vts, search_vts |-> search_vts,
                    radius |-> radius, nb_mpts |-> nb_mpts],
                   fit_and_radius_search(self, tree_vts, search_vts, radius, n_jobs, nb_mpts))

\* pickle.loads(pickle.dumps(tree)): copyreg sends the object through pickler
\* and calls unpickler on what it returned.
Pickle ==
    /\ mt = Idle
    /\ LET a == pickler(self)
           u == unpickler(a.n_neighbors, a.radius, a.leaf_size, a.metric, a.X)
       IN  Returned("pickle", <<>>, Ret(self, u.raised, u.value))

Next ==
    \/ Fit
    \/ GetData
    \/ SaveIndex
    \/ RadiusNeighbors
    \/ GetDists
    \/ GetRows
    \/ GetCols
    \/ GetCsrMatrix
    \/ GetCooMatrix
    \/ GetCscMatrix
    \/ RadiusNeighborsFull
    \/ FitAndRadiusSearch
    \/ Pickle

Spec == Init /\ [][Next]_vars

----------------------------------------------------------------------------
(* Radius search over every small data set: the caller holds one data      *)
(* array that suits the metric, fits it and queries it.                    *)

Grid2 == [1..2 -> 0..MaxCoord]

RowCode(row) == row[1] * (MaxCoord + 1) + row[2]

\* MaxRows distinct points in increasing order out of the first MaxRows + 1
\* points of the grid, or MaxRows coincident points.
TreeRows ==
    {f \in [1..MaxRows -> {p \in Grid2 : RowCode(p) <= MaxRows}] :
        \A i \in 1..(MaxRows - 1) : RowCode(f[i]) < RowCode(f[i + 1])}
    \cup {[i \in 1..MaxRows |-> p] : p \in Grid2}

\* A point of two groups of two coordinates made from a point of the grid.
Lift(p) == <<p[1], p[2], 0, p[1]>>

\* The data arrays fit accepts under the metric: 2-d for the ungrouped
\* metrics, 3-d with groups of width two (one group, or two) for the others.
SearchTrees(metric) ==
    IF metric \in {"l1", "l2"}
    THEN {Arr("float64", <<MaxRows, 2>>, rows) : rows \in TreeRows}
    ELSE {Arr("float64", <<MaxRows, 1, 2>>, rows) : rows \in TreeRows}
         \cup {Arr("float64", <<MaxRows, 2, 2>>, [i \in 1..MaxRows |-> Lift(rows[i])]) :
                 rows \in TreeRows}

\* Query batches of two rows for a tree: a grid point and the far corner.
SearchQueries(tree) ==
    IF RowWidth(tree.shape) = 2
    THEN {Arr("float64", <<2, 2>>, <<p, <<MaxCoord, MaxCoord>>>>) : p \in Grid2}
    ELSE {Arr("float64", <<2, 2, 2>>, <<Lift(p), Lift(<<MaxCoord, MaxCoord>>)>>) : p \in Grid2}

SearchInit ==
    \E metric \in SUPPORTED_METRIC, leaf_size \in LeafSizes :
        /\ Constructed(metric, leaf_size)
        /\ env \in SearchTrees(Lower(metric))

SearchFit ==
    /\ mt = Idle
    /\ Returned("fit", [X |-> env], fit(self, env))

SearchRadiusNeighbors ==
    /\ mt = Idle
    /\ \E X \in SearchQueries(env), radius \in Radii, n_jobs \in LifeJobs :
          Returned("radius_neighbors",
                   [X |-> X, radius |-> radius, return_distance |-> TRUE,
                    no_return |-> FALSE],
                   radius_neighbors(self, X, radius, TRUE, n_jobs, FALSE))

SearchNext ==
    \/ SearchFit
    \/ SearchRadiusNeighbors

SpecSearch == SearchInit /\ [][SearchNext]_vars

----------------------------------------------------------------------------
(* Two-level search: the caller holds full-resolution data of two rows of  *)
(* four coordinates and runs fit_and_radius_search over it.                *)

\* Rows of four coordinates: both halves constant, or both halves alike.
FullRows ==
    {<<p[1], p[1], p[2], p[2]>> : p \in Grid2} \cup {<<p[1], p[2], p[1], p[2]>> : p \in Grid2}

FullCode(row) == (RowCode(<<row[1], row[2]>>) * (MaxCoord + 1) + row[3]) * (MaxCoord + 1) + row[4]

\* Two distinct rows in increasing order: 2-d for the ungrouped metrics,
\* two groups of two coordinates for the grouped ones.
TwoLevelTrees(metric) ==
    {Arr("float64", IF metric \in {"l1", "l2"} THEN <<2, 4>> ELSE <<2, 2, 2>>, <<a, b>>) :
        <<a, b>> \in {ab \in FullRows \X FullRows : FullCode(ab[1]) < FullCode(ab[2])}}

\* One query row, shaped like the rows of the tree.
TwoLevelQueries(tree) ==
    {Arr("float64", <<1>> \o Tail(tree.shape), <<q>>) :
        q \in {<<0, 0, 0, 0>>}}

TwoLevelInit ==
    \E metric \in SUPPORTED_METRIC, leaf_size \in LeafSizes :
        /\ Constructed(metric, leaf_size)
        /\ env \in TwoLevelTrees(Lower(metric))

TwoLevelFitAndRadiusSearch ==
    /\ mt = Idle
    /\ \E search_vts \in TwoLevelQueries(env), radius \in Radii, n_jobs \in {1},
          nb_mpts \in MptsArgs :
          Returned("fit_and_radius_search",
                   [tree_vts |-> env, search_vts |-> search_vts,
                    radius |-> radius, nb_mpts |-> nb_mpts],
                   fit_and_radius_search(self, env, search_vts, radius, n_jobs, nb_mpts))

TwoLevelGetRows ==
    /\ mt = Idle
    /\ Returned("get_rows", <<>>, get_rows(self))

TwoLevelNext ==
    \/ TwoLevelFitAndRadiusSearch
    \/ TwoLevelGetRows

SpecTwoLevel == TwoLevelInit /\ [][TwoLevelNext]_vars

----------------------------------------------------------------------------
(* Threaded batch search (4.4), one worker step at a time: every worker    *)
(* searches the rows of its chunk in order into its own buffer, in any     *)
(* interleaving with the others; the buffers are merged once all are done. *)

\* Query batches for a threaded search: those of SearchQueries and the data
\* array itself.
ThreadedQueries(tree) == SearchQueries(tree) \cup {tree}

ThreadCounts == 2..MaxJobs

\* radius_neighbors enters the _multithreaded native call: the workers start
\* with empty buffers.
MTBegin ==
    /\ mt = Idle
    /\ \E X \in ThreadedQueries(env), radius \in Radii, n_jobs \in ThreadCounts :
         LET a == radius_neighbors_args(self, X, radius)
             d == radius_neighbors_dispatch(TRUE, n_jobs)
         IN  /\ a.raised = NoError
             /\ SearchError(self.index, a.X) = NoError
             /\ mt' = [phase |-> "running", X |-> a.X, radius |-> a.radius,
                       args |-> [X |-> X, radius |-> radius, return_distance |-> TRUE,
                                 no_return |-> FALSE],
                       withDists |-> d.withDists, nt |-> d.nt,
                       done |-> [c \in 1..d.nt |-> 0],
                       buf |-> [c \in 1..d.nt |-> <<>>]]
             /\ UNCHANGED <<self, last, env>>

\* Worker c searches the next row of its chunk.
MTWorker ==
    /\ mt.phase = "running"
    /\ \E c \in 1..mt.nt :
         LET nq == Len(mt.X.flat)
             row == ChunkFirst(nq, mt.nt, c) + mt.done[c]
         IN  /\ mt.done[c] < ChunkSize(nq, mt.nt, c)
             /\ mt' = [mt EXCEPT !.done[c] = @ + 1,
                                 !.buf[c] = @ \o RadiusSearch(self.index, mt.X, row, mt.radius)]
             /\ UNCHANGED <<self, last, env>>

\* All workers have finished: the buffers are concatenated in chunk order,
\* assembled, and radius_neighbors returns.
MTJoin ==
    /\ mt.phase = "running"
    /\ \A c \in 1..mt.nt : mt.done[c] = ChunkSize(Len(mt.X.flat), mt.nt, c)
    /\ Returned("radius_neighbors", mt.args,
                radius_neighbors_return(
                    self,
                    [self.index EXCEPT !.searched = TRUE,
                                       !.res = Assemble(Flatten(mt.buf), Len(mt.X.flat),
                                                        mt.withDists)],
                    mt.X, TRUE, FALSE))

MTNext ==
    \/ SearchFit
    \/ MTBegin
    \/ MTWorker
    \/ MTJoin

SpecMT == SearchInit /\ [][MTNext]_vars

----------------------------------------------------------------------------
(* Claims *)

\* The arguments, reshaped and defaulted, of the radius_neighbors call that
\* last returned.
LastQuery == IF ndim(last.args.X) = 3 THEN Reshape2D(last.args.X) ELSE last.args.X

LastRadius == IF last.args.radius = None THEN self.radius ELSE last.args.radius

\* The group width the metric is evaluated with over a data array.
GroupWidth(metric, data) == IF metric \in {"l1", "l2"} THEN 1 ELSE data.shape[3]

\* Every (query_row, point_col, distance) whose true metric distance from
\* query row to data row is at most the radius, by exhaustive comparison.
BruteForce(metric, data, X, radius) ==
    {<<r - 1, c - 1,
       [int  |-> Distance(metric, GroupWidth(metric, data), data.flat[c], X.flat[r],
                          data.den, X.den).int,
        rads |-> Distance(metric, GroupWidth(metric, data), data.flat[c], X.flat[r],
                          data.den, X.den).rads,
        den  |-> data.den * X.den]>> :
        <<r, c>> \in {rc \in (1..Len(X.flat)) \X (1..Len(data.flat)) :
                        LeqRadius(Distance(metric, GroupWidth(metric, data),
                                           data.flat[rc[2]], X.flat[rc[1]],
                                           data.den, X.den),
                                  data.den * X.den, radius.num, radius.den)}}

Triples(v) == {<<v.rows[i], v.cols[i], v.dists[i]>> : i \in 1..Len(v.rows)}

SearchReturned ==
    /\ last.op = "radius_neighbors"
    /\ last.raised = NoError
    /\ last.args.return_distance
    /\ ~last.args.no_return

\* C2: a radius_neighbors call on a fitted index returns exactly the
\* (query_row, point_col) pairs whose true metric distance is at most the
\* radius (boundary included), each pair once, with the true non-squared
\* distance reported for it.
C2_RadiusSearchExact ==
    SearchReturned =>
        /\ Triples(last.value) = BruteForce(self.metric, env, LastQuery, LastRadius)
        /\ Len(last.value.rows) =
              Cardinality(BruteForce(self.metric, env, LastQuery, LastRadius))
        /\ Len(last.value.cols) = Len(last.value.rows)
        /\ Len(last.value.dists) = Len(last.value.rows)

\* A grouped-metric search that pruned a subtree for its first query row,
\* kept some points and dropped others, one kept point lying exactly on the
\* radius.
C2_Witness ==
    /\ SearchReturned
    /\ self.metric = "l21"
    /\ LastRadius.num > 0
    /\ Len(last.value.rows) > 0
    /\ Len(last.value.rows) < Len(LastQuery.flat) * Len(env.flat)
    /\ \E i \in 1..Len(last.value.dists) :
          /\ last.value.dists[i].rads = <<>>
          /\ last.value.dists[i].int * LastRadius.den =
                LastRadius.num * last.value.dists[i].den
    /\ ~self.index.tree.leaf
    /\ \/ Pruned(self.index, self.index.tree.left, LastQuery.flat[1], LastQuery.den,
                 LastRadius.num, LastRadius.den)
       \/ Pruned(self.index, self.index.tree.right, LastQuery.flat[1], LastQuery.den,
                 LastRadius.num, LastRadius.den)


\* A fit_and_radius_search call with nb_mpts set, a two-level metric and a
\* number of points per row that nb_mpts divides.
TwoLevelAccepted ==
    /\ last.op = "fit_and_radius_search"
    /\ Truthy(last.args.nb_mpts)
    /\ self.metric \in {"l1", "l2", "l11", "l21"}
    /\ last.args.tree_vts.shape[2] % last.args.nb_mpts.val = 0

\* C1: for the metrics l1, l2, l11 and l21, every radius and every mean-point
\* count dividing the dimension, fit_and_radius_search with nb_mpts returns
\* exactly the (query, point) pairs whose full-resolution distance is at most
\* the radius: the coarse pass loses none and the refinement keeps no other.
C1_TwoLevelExact ==
    TwoLevelAccepted =>
        /\ last.raised = NoError
        /\ Triples(self.index.res) =
              BruteForce(self.metric, last.args.tree_vts,
                         Reshape2D(last.args.search_vts), last.args.radius)

\* C1, the half that the code keeps: no pair beyond the radius survives the
\* refinement, and under l1, l11 and l21 no pair within it is lost.
C1_NoFalsePositive ==
    TwoLevelAccepted =>
        /\ last.raised = NoError
        /\ Triples(self.index.res) \subseteq
              BruteForce(self.metric, last.args.tree_vts,
                         Reshape2D(last.args.search_vts), last.args.radius)
        /\ self.metric # "l2" =>
              Triples(self.index.res) =
                 BruteForce(self.metric, last.args.tree_vts,
                            Reshape2D(last.args.search_vts), last.args.radius)


\* An array as the two-level search sees it: 3-d arrays flattened to rows.
Flat2(X) == IF ndim(X) = 3 THEN Reshape2D(X) ELSE X

\* The shape conditions radius_neighbors_full puts on its arrays, the
\* divisibility of the dimension aside, over a tree that holds data.
FullArgsMatch(s, a) ==
    /\ s.index # None
    /\ s._fit_X # None
    /\ Flat2(a.X_mpts).shape[2] <= Flat2(a.X_full).shape[2]
    /\ Flat2(a.X_full).shape[2] = Flat2(a.Data_full).shape[2]
    /\ Flat2(a.X_mpts).shape[1] = Flat2(a.X_full).shape[1]
    /\ s._fit_X.shape[1] = Flat2(a.Data_full).shape[1]

C4_InvalidDimension ==
    /\ (/\ last.op = "radius_neighbors_full"
        /\ FullArgsMatch(self, last.args)
        /\ Flat2(last.args.X_full).shape[2] % Flat2(last.args.X_mpts).shape[2] # 0)
       => last.raised.kind = "InvalidDimension"
    /\ (/\ last.op = "fit_and_radius_search"
        /\ Truthy(last.args.nb_mpts)
        /\ self.metric \in {"l1", "l2", "l11", "l21"}
        /\ Tail(last.args.tree_vts.shape) = Tail(last.args.search_vts.shape)
        /\ last.args.tree_vts.shape[2] % last.args.nb_mpts.val # 0)
       => last.raised.kind = "InvalidDimension"

\* The tree was constructed and no fit has touched it.
NeverFitted == self.index = None /\ self._fit_X = None

\* C5: on a tree that was never fitted, every operation that needs a built
\* index fails with the not-fitted error.
C5_NotFitted ==
    (/\ NeverFitted
     /\ last.op \in {"radius_neighbors", "radius_neighbors_full", "get_data",
                     "save_index", "get_dists", "get_rows", "get_cols"})
    => last.raised = NotFittedError

\* The tree is unfitted, or its index is built over the data it keeps.
Settled ==
    \/ NeverFitted
    \/ /\ self.index # None
       /\ self._fit_X # None
       /\ self.index.fitted
       /\ self.index.data = self._fit_X.flat

\* C7: pickling and unpickling a tree succeeds and gives a tree with the same
\* parameters, fitted exactly when the original was, over the same data with
\* the same group width.
C7_PickleRoundTrip ==
    (last.op = "pickle" /\ Settled) =>
        /\ last.raised = NoError
        /\ last.value.n_neighbors = self.n_neighbors
        /\ last.value.radius = self.radius
        /\ last.value.leaf_size = self.leaf_size
        /\ last.value.metric = self.metric
        /\ last.value._fit_X = self._fit_X
        /\ (self.index = None) = (last.value.index = None)
        /\ self.index # None =>
              /\ last.value.index.fitted
              /\ last.value.index.data = self.index.data
              /\ last.value.index.last_dim = self.index.last_dim
              /\ last.value.index.tree = self.index.tree

\* C8: after a radius search of Q query rows over N tree points that recorded
\* its distances and whose query count the wrapper holds, get_csr_matrix and
\* get_coo_matrix give a matrix of shape (Q, N).
C8_MatrixShape ==
    (/\ last.op \in {"get_csr_matrix", "get_coo_matrix"}
     /\ self.index # None
     /\ self.index.fitted
     /\ self.index.searched
     /\ Len(self.index.res.dists) = Len(self.index.res.rows)
     /\ self._nb_vts_in_search = Some(Len(self.index.res.ptr) - 1))
    => /\ last.raised = NoError
       /\ last.value.shape = <<Len(self.index.res.ptr) - 1, Len(self.index.data)>>

\* C9: the query count the wrapper keeps is that of the search whose results
\* the index holds, and none when the index holds no results.
C9_NbVtsInSearch ==
    IF self.index # None /\ self.index.searched
    THEN self._nb_vts_in_search = Some(Len(self.index.res.ptr) - 1)
    ELSE self._nb_vts_in_search = None

\* C10: a fit call that fails leaves the tree as it was.
C10_FailedFitNoChange ==
    [][(last'.op = "fit" /\ last'.raised # NoError) => self' = self]_vars


\* The result arrays of the same search run by one thread over the same index.
SingleThreaded ==
    NativeRadiusSearch(self.index, LastQuery, LastRadius, TRUE, 1).index.res

\* C6: a threaded radius search, whatever the order in which its workers
\* took their steps, gives the same (query_row, point_col, distance) triples
\* as the single-threaded search, with the rows in query order.
C6_ThreadedEqualsSingle ==
    (mt = Idle /\ SearchReturned) =>
        /\ Len(last.value.dists) = Len(last.value.rows)
        /\ Len(last.value.cols) = Len(last.value.rows)
        /\ Triples(last.value) = Triples(SingleThreaded)
        /\ Len(last.value.rows) = Len(SingleThreaded.rows)
        /\ \A i \in 1..Len(last.value.rows) : \A j \in i..Len(last.value.rows) :
              last.value.rows[i] <= last.value.rows[j]
        /\ self.index.res.ptr = SingleThreaded.ptr

\* A threaded search over more rows than threads has returned, with
\* neighbours found for the first query row and for the last.
C6_Witness ==
    /\ mt = Idle
    /\ SearchReturned
    /\ Len(LastQuery.flat) > 2
    /\ \E i, j \in 1..Len(last.value.rows) :
          /\ last.value.rows[i] = 0
          /\ last.value.rows[j] = Len(LastQuery.flat) - 1
    /\ Len(last.value.rows) < Len(LastQuery.flat) * Len(env.flat)

====
